---- MODULE Spec2Model ----
(***************************************************************************)
(* RecketClient (src/src/index.ts): a WebSocket session layer with         *)
(* fire-and-forget events, correlated request/response with deadlines,     *)
(* and automatic reconnection with an event queue.                         *)
(*                                                                         *)
(* All callbacks run to completion on one thread, so each handler, timer   *)
(* callback and public method is one action.  Request identifiers          *)
(* (Date.now() + a random suffix) are modelled as fresh; the caller's      *)
(* notification handlers are recorded in `notes` and return normally; the  *)
(* "reconnect" handler may call emit(), and a request handler may respond  *)
(* (once or twice), throw, do both, or return without responding.          *)
(* A transport instance is CONNECTING, OPEN, CLOSING or CLOSED as the      *)
(* WebSocket interface defines; close() moves it to CLOSING at once and    *)
(* its close event follows later, possibly after reconnectResume() has     *)
(* replaced it.                                                            *)
(***************************************************************************)
EXTENDS Integers, Sequences, FiniteSets, TLC

\* ------------------------------------------------------------------ bounds
\* Each specification explores one facility of the client together with the
\* whole connection lifecycle, under its own limits.
MaxRequests == 2     \* request() calls that reach the identifier generator
MaxEvents == 3       \* emit() calls
ConnSockets == 4     \* transports created (constructor included), lifecycle runs
ReqSockets == 2      \* transports created, request runs
EvSockets == 3       \* transports created, event runs
InSockets == 2       \* transports created, inbound-request runs
MaxInbound == 2      \* distinct identifiers the peer puts in its request frames
MaxHandlerEmits == 1 \* emit() calls made by the caller's reconnect handler in one open

\* ------------------------------------------------------- program constants
ResetDelay == 1000           \* onopen: this.reconnectionDelay = 1000
BackoffCeiling == 30000      \* tryReconnect: Math.min(30000, ...)
DefaultAttempts == 5         \* options.reconnectionAttempts ?? 5
DefaultDelay == 1000         \* options.reconnectionDelay ?? 1000
DocMaxDelay == 10000         \* README: maxReconnectDelay: 10000

CONNECTING == "CONNECTING"
OPEN == "OPEN"
CLOSING == "CLOSING"
CLOSED == "CLOSED"

Ids == 1..MaxRequests

\* JSON payloads a response frame may carry. "falsy" abstracts null, false, 0,
\* "" and an absent field, which the demultiplexer does not tell apart.
DataVals == {"d1", "d2", "falsy"}
Truthy(d) == d # "falsy"

\* The error field of a response frame: NoError when absent, else its code.
NoError == -1
ErrorVals == {NoError, 0, 404}

\* Constructor options: {reconnectionAttempts, reconnectionDelay, shouldReconnect}
OptionSets ==
    { [reconnectionAttempts |-> a, reconnectionDelay |-> d, shouldReconnect |-> s] :
        a \in {2, 3}, d \in {100, 8000}, s \in BOOLEAN }
    \cup { [reconnectionAttempts |-> DefaultAttempts,
            reconnectionDelay |-> DefaultDelay,
            shouldReconnect |-> TRUE] }

\* this.socket.url as new URL() parses it: the protocol and the host name.
Urls ==
    { [protocol |-> "wss:", hostname |-> "example.com"],
      [protocol |-> "ws:", hostname |-> "localhost"],
      [protocol |-> "ws:", hostname |-> "example.com"] }
DefaultUrl == [protocol |-> "wss:", hostname |-> "example.com"]

\* Names under which the caller has registered handlers with on(): the four
\* lifecycle notifications and one application event.
LifecycleNames == {"connect", "disconnect", "reconnect", "reconnect_failed"}
HandledNames == LifecycleNames \cup {"chat"}
HandshakeAck == "__system_handshake_ack"

\* Event names a peer may put in an event frame.
EventNames == HandledNames \cup {HandshakeAck, "other"}

\* Endpoint names and the handler functions a caller passes to onRequest.
Endpoints == {"e1", "e2"}
Handlers == {"h1", "h2"}
NoHandler == "none"

\* Identifiers of inbound request frames (non-empty strings chosen by the peer).
InIds == 1..MaxInbound

\* What a request handler does when it is called: call respond(data) and
\* return, call respond(data) twice and return, return without calling respond
\* (it answers later or never), throw an Error, call respond(data) and then
\* throw an Error, or throw null.
Behaviours == {"respond", "respondTwice", "defer", "throw", "respondThenThrow", "throwNull"}
Throws(b) == b \in {"throw", "respondThenThrow", "throwNull"}
Responds(b) == b \in {"respond", "respondTwice", "respondThenThrow"}
\* Calls of the respond continuation; each one is a sendResponse.
RespondCalls(b) == IF b = "respondTwice" THEN 2 ELSE IF Responds(b) THEN 1 ELSE 0
\* error.message in the catch clause is itself a TypeError when the thrown
\* value is null or undefined.
CatchThrows(b) == b = "throwNull"

\* lastOp.code of a step in which caller code threw: onRequest itself, or the
\* handler of an inbound request (an Error, or null).
Thrown == 1
ThrownNull == 2
ThrowCode(b) == IF ~Throws(b) THEN 0 ELSE IF CatchThrows(b) THEN ThrownNull ELSE Thrown

VARIABLES
    limits,                 \* [sockets, requests, events, observe]: the limits of
                            \* this run and which history it records
    options,                \* the options object given to the constructor
    url,                    \* this.socket.url, as new URL() parses it
    allowServerRequests,
    requestHandlers,        \* endpoint -> registered handler, NoHandler if none
    reconnectArgs,          \* argument list of the last call of the "reconnect" handler
    readyState,             \* this.socket.readyState
    gen,                    \* which transport instance this.socket is (1, 2, ...)
    closingOld,             \* superseded instances whose close event is still due
    liveOld,                \* superseded instances that are CONNECTING or OPEN
    reconnectionAttempts,
    reconnectionDelay,
    shouldReconnect,
    currentAttempt,
    isManuallyDisconnected,
    reconnectTimers,        \* pending setTimeout callbacks of tryReconnect
    pendingRequests,        \* keys of the pendingRequests map
    reqTimers,              \* identifiers whose deadline timer is armed
    reqGen,                 \* pending identifier -> transport instance it was sent on
    settled,                \* identifiers whose promise is no longer pending
    timedOut,               \* identifiers whose deadline timer has fired
    delivered,              \* identifier -> what the last step handed to its caller
    nextId,                 \* next fresh request identifier
    eventQueue,
    nextEv,                 \* next emit() sequence number
    sentEvents,             \* event frames handed to the transport, in order
    wire,                   \* frames handed to socket.send by the last step
    notes,                  \* caller callbacks called by the last step: notifications
                            \* by name, request handlers by identity
    waits,                  \* delays of the reconnection timers set since the last open
                            \* (recorded when limits.observe = "backoff")
    sinceDisconnect,        \* the caller called disconnect() and not yet reconnectResume()
                            \* (recorded when limits.observe = "events")
    emittedAfterDisconnect, \* events emitted while sinceDisconnect
    lastOp                  \* the step that produced this state

vars == << limits, options, url, allowServerRequests, requestHandlers, reconnectArgs,
           readyState, gen, closingOld, liveOld, reconnectionAttempts,
           reconnectionDelay, shouldReconnect, currentAttempt,
           isManuallyDisconnected, reconnectTimers, pendingRequests, reqTimers,
           reqGen, settled, timedOut, delivered, nextId, eventQueue, nextEv, sentEvents, wire, notes,
           waits, sinceDisconnect, emittedAfterDisconnect, lastOp >>

\* ------------------------------------------------------------------ helpers
Min(a, b) == IF a <= b THEN a ELSE b

Range(s) == { s[i] : i \in 1..Len(s) }

NoData == "none"

\* What the last step was: its name, the identifier (or transport instance)
\* it concerned, and a code and payload where it carried one.
Op(name, id, code, data) == [name |-> name, id |-> id, code |-> code, data |-> data]

\* What a promise hands to its caller: nothing yet, a payload, or an error
\* {code, message}.
NoOutcome == [kind |-> "none", data |-> NoData, code |-> 0, msg |-> ""]
Resolved(d) == [kind |-> "resolved", data |-> d, code |-> 0, msg |-> ""]
Rejected(c, m) == [kind |-> "rejected", data |-> NoData, code |-> c, msg |-> m]
NoDelivery == [id \in Ids |-> NoOutcome]

\* Mutant: a continuation that can be completed again after it was settled.
DeliverAgain(id, new) == new

\* A promise settles once: resolve/reject on a settled promise hands nothing
\* to the caller.
Deliver(id, new) == IF id \in settled THEN NoOutcome ELSE new

\* error.code || 500
ErrCode(c) == IF c = 0 THEN 500 ELSE c

\* response?.id && (response?.data || response?.error); identifiers are
\* non-empty strings, an error object is truthy whenever it is present.
IsResponseFrame(data, error) == Truthy(data) \/ error # NoError

\* Math.min(30000, this.reconnectionDelay * 2)
NextDelay(d) == Min(BackoffCeiling, d * 2)

\* Mutant: the table is cleared without rejecting its entries.
ClearDeliveredSilent(pend) == NoDelivery

\* clearPendingRequests: reject every entry of the table with 503.
ClearDelivered(pend) ==
    [id \in Ids |-> IF id \in pend THEN Deliver(id, Rejected(503, "closed"))
                    ELSE NoOutcome]

\* Mutant: the queue is replayed newest first.
FlushSendsReversed(q, rs) ==
    IF rs = OPEN THEN [i \in 1..Len(q) |-> q[Len(q) + 1 - i]] ELSE << >>

\* flushEventQueue: emit() of each queued event; emit sends only when OPEN.
FlushSends(q, rs) == IF rs = OPEN THEN q ELSE << >>

EventFrame(e) == [type |-> "event", id |-> e, code |-> 0]
RequestFrame(id) == [type |-> "request", id |-> id, code |-> 0]

ResponseFrame(id, code) == [type |-> "response", id |-> id, code |-> code]

EventFrames(q) == [i \in 1..Len(q) |-> EventFrame(q[i])]

\* Event sequence numbers first, first + 1, ..., first + k - 1.
Fresh(first, k) == [i \in 1..k |-> first + i - 1]

\* --------------------------------------------------------------------- Init
InitWith(lim, opts, urls) ==
    /\ limits = lim
    /\ options \in opts
    /\ url \in urls
    /\ allowServerRequests = FALSE
    /\ requestHandlers = [ep \in Endpoints |-> NoHandler]
    /\ reconnectArgs = << >>
    /\ reconnectionAttempts = options.reconnectionAttempts
    /\ reconnectionDelay = options.reconnectionDelay
    /\ shouldReconnect = options.shouldReconnect
    /\ readyState = CONNECTING
    /\ gen = 1
    /\ closingOld = {}
    /\ liveOld = {}
    /\ currentAttempt = 0
    /\ isManuallyDisconnected = FALSE
    /\ reconnectTimers = 0
    /\ pendingRequests = {}
    /\ reqTimers = {}
    /\ reqGen = [id \in Ids |-> 0]
    /\ settled = {}
    /\ timedOut = {}
    /\ delivered = NoDelivery
    /\ nextId = 1
    /\ eventQueue = << >>
    /\ nextEv = 1
    /\ sentEvents = << >>
    /\ wire = << >>
    /\ notes = << >>
    /\ waits = << >>
    /\ sinceDisconnect = FALSE
    /\ emittedAfterDisconnect = {}
    /\ lastOp = Op("constructor", 0, 0, NoData)

inVars == << url, allowServerRequests, requestHandlers >>
connVars == << readyState, gen, closingOld, liveOld >>
policyVars == << reconnectionAttempts, reconnectionDelay, shouldReconnect,
                 currentAttempt, isManuallyDisconnected >>
reqVars == << pendingRequests, reqTimers, reqGen, settled, timedOut, nextId >>
evVars == << eventQueue, nextEv, sentEvents >>
histVars == << sinceDisconnect, emittedAfterDisconnect >>

\* An entry that leaves the table takes its transport instance with it.
ForgetGen ==
    reqGen' = [id \in Ids |-> IF id \in pendingRequests' THEN reqGen[id] ELSE 0]

\* ---------------------------------------------------------------- request()
\* Mutant: request() checks only the manual flag, not the transport's state.
RequestUnguarded(sendOk) ==
    /\ nextId <= limits.requests
    /\ IF isManuallyDisconnected
       THEN /\ lastOp' = Op("request", 0, 400, NoData)
            /\ wire' = << >>
            /\ delivered' = NoDelivery
            /\ UNCHANGED reqVars
       ELSE /\ nextId' = nextId + 1
            /\ reqTimers' = reqTimers \cup {nextId}
            /\ pendingRequests' = pendingRequests \cup {nextId}
            /\ reqGen' = [reqGen EXCEPT ![nextId] = gen]
            /\ timedOut' = timedOut
            /\ wire' = IF sendOk THEN << RequestFrame(nextId) >> ELSE << >>
            /\ settled' = settled
            /\ delivered' = NoDelivery
            /\ lastOp' = Op("request", nextId, 0, NoData)
    /\ notes' = << >>
    /\ UNCHANGED << limits, options, inVars, reconnectArgs, connVars, policyVars, reconnectTimers, evVars, waits,
                    histVars >>

Request(sendOk) ==
    /\ nextId <= limits.requests
    /\ IF isManuallyDisconnected
       THEN /\ lastOp' = Op("request", 0, 400, NoData)
            /\ wire' = << >>
            /\ delivered' = NoDelivery
            /\ UNCHANGED reqVars
       ELSE IF readyState # OPEN
       THEN /\ lastOp' = Op("request", 0, 503, NoData)
            /\ wire' = << >>
            /\ delivered' = NoDelivery
            /\ UNCHANGED reqVars
       ELSE /\ nextId' = nextId + 1
            /\ reqTimers' = reqTimers \cup {nextId}
            /\ pendingRequests' = pendingRequests \cup {nextId}
            /\ reqGen' = [reqGen EXCEPT ![nextId] = gen]
            /\ timedOut' = timedOut
            /\ IF sendOk
               THEN /\ wire' = << RequestFrame(nextId) >>
                    /\ settled' = settled
                    /\ delivered' = NoDelivery
                    /\ lastOp' = Op("request", nextId, 0, NoData)
               ELSE /\ wire' = << >>
                    /\ settled' = settled \cup {nextId}
                    /\ delivered' = [NoDelivery EXCEPT
                                        ![nextId] = Deliver(nextId, Rejected(500, "send"))]
                    /\ lastOp' = Op("request", nextId, 500, NoData)
    /\ notes' = << >>
    /\ UNCHANGED << limits, options, inVars, reconnectArgs, connVars, policyVars, reconnectTimers, evVars, waits,
                    histVars >>

\* Mutant: the deadline callback rejects but leaves the entry in the table.
TimeoutKeepsEntry(id) ==
    /\ id \in reqTimers
    /\ pendingRequests' = pendingRequests
    /\ reqTimers' = reqTimers \ {id}
    /\ settled' = settled \cup {id}
    /\ timedOut' = timedOut \cup {id}
    /\ delivered' = [NoDelivery EXCEPT ![id] = Deliver(id, Rejected(408, "timeout"))]
    /\ lastOp' = Op("timeout", id, 408, NoData)
    /\ wire' = << >>
    /\ notes' = << >>
    /\ ForgetGen
    /\ UNCHANGED << limits, options, inVars, reconnectArgs, connVars, policyVars, reconnectTimers, nextId,
                    evVars, waits, histVars >>

\* The deadline timer of request `id` fires.
Timeout(id) ==
    /\ id \in reqTimers
    /\ pendingRequests' = pendingRequests \ {id}
    /\ reqTimers' = reqTimers \ {id}
    /\ settled' = settled \cup {id}
    /\ timedOut' = timedOut \cup {id}
    /\ delivered' = [NoDelivery EXCEPT ![id] = Deliver(id, Rejected(408, "timeout"))]
    /\ lastOp' = Op("timeout", id, 408, NoData)
    /\ wire' = << >>
    /\ notes' = << >>
    /\ ForgetGen
    /\ UNCHANGED << limits, options, inVars, reconnectArgs, connVars, policyVars, reconnectTimers, nextId,
                    evVars, waits, histVars >>

\* Mutant: the response settles the oldest pending request, whatever
\* identifier the frame carries.
HandleIncomingResponseOldest(id, data, error) ==
    IF pendingRequests # {}
    THEN LET t == CHOOSE x \in pendingRequests : \A y \in pendingRequests : x <= y IN
         /\ reqTimers' = reqTimers \ {t}
         /\ pendingRequests' = pendingRequests \ {t}
         /\ settled' = settled \cup {t}
         /\ delivered' = [NoDelivery EXCEPT ![t] =
                             IF error # NoError
                             THEN Deliver(t, Rejected(ErrCode(error), "response"))
                             ELSE Deliver(t, Resolved(data))]
    ELSE /\ delivered' = NoDelivery
         /\ UNCHANGED << reqTimers, pendingRequests, settled >>

\* handleIncomingResponse
HandleIncomingResponse(id, data, error) ==
    IF id \in pendingRequests
    THEN /\ reqTimers' = reqTimers \ {id}
         /\ pendingRequests' = pendingRequests \ {id}
         /\ settled' = settled \cup {id}
         /\ delivered' = [NoDelivery EXCEPT ![id] =
                             IF error # NoError
                             THEN Deliver(id, Rejected(ErrCode(error), "response"))
                             ELSE Deliver(id, Resolved(data))]
    ELSE /\ delivered' = NoDelivery
         /\ UNCHANGED << reqTimers, pendingRequests, settled >>

\* socket.onmessage for a frame {"response": {id, data, error}}. A frame the
\* demultiplexer does not take for a response goes to events.get(undefined),
\* which has no handler.
OnMessageResponse(id, data, error) ==
    /\ readyState \in {OPEN, CLOSING}
    /\ IF IsResponseFrame(data, error)
       THEN HandleIncomingResponse(id, data, error)
       ELSE /\ delivered' = NoDelivery
            /\ UNCHANGED << reqTimers, pendingRequests, settled >>
    /\ timedOut' = timedOut
    /\ lastOp' = IF IsResponseFrame(data, error) /\ id \in pendingRequests
                 THEN Op("response", id, error, data)
                 ELSE Op("response", id, NoError, NoData)
    /\ wire' = << >>
    /\ notes' = << >>
    /\ ForgetGen
    /\ UNCHANGED << limits, options, inVars, reconnectArgs, connVars, policyVars, reconnectTimers, nextId,
                    evVars, waits, histVars >>

\* ------------------------------------------------------- events and the queue
\* emit(event, data); the event is identified by its sequence number.
Emit ==
    /\ nextEv <= limits.events
    /\ nextEv' = nextEv + 1
    /\ IF readyState # OPEN
       THEN /\ eventQueue' = IF ~isManuallyDisconnected
                             THEN Append(eventQueue, nextEv)
                             ELSE eventQueue
            /\ sentEvents' = sentEvents
            /\ wire' = << >>
       ELSE /\ eventQueue' = eventQueue
            /\ sentEvents' = Append(sentEvents, nextEv)
            /\ wire' = << EventFrame(nextEv) >>
    /\ emittedAfterDisconnect' = IF sinceDisconnect
                                 THEN emittedAfterDisconnect \cup {nextEv}
                                 ELSE emittedAfterDisconnect
    /\ lastOp' = Op("emit", nextEv, 0, NoData)
    /\ notes' = << >>
    /\ delivered' = NoDelivery
    /\ UNCHANGED << limits, options, inVars, reconnectArgs, connVars, policyVars, reconnectTimers, reqVars, waits,
                    sinceDisconnect >>

\* ------------------------------------------------------ connection lifecycle
\* Mutant: the attempt limit is compared with > instead of >=.
TryReconnectOneMore(n) ==
    IF currentAttempt > reconnectionAttempts
    THEN /\ notes' = Append(n, "reconnect_failed")
         /\ UNCHANGED << reconnectTimers, waits >>
    ELSE /\ notes' = n
         /\ reconnectTimers' = reconnectTimers + 1
         /\ waits' = IF limits.observe = "backoff"
                     THEN Append(waits, reconnectionDelay)
                     ELSE waits

\* tryReconnect, after the notifications `n` the close handler already fired.
TryReconnect(n) ==
    IF currentAttempt >= reconnectionAttempts
    THEN /\ notes' = Append(n, "reconnect_failed")
         /\ UNCHANGED << reconnectTimers, waits >>
    ELSE /\ notes' = n
         /\ reconnectTimers' = reconnectTimers + 1
         /\ waits' = IF limits.observe = "backoff"
                     THEN Append(waits, reconnectionDelay)
                     ELSE waits

\* The body of socket.onclose; every transport instance carries the same one.
OnClose ==
    /\ pendingRequests' = {}
    /\ ForgetGen
    /\ reqTimers' = reqTimers \ pendingRequests
    /\ settled' = settled \cup pendingRequests
    /\ delivered' = ClearDelivered(pendingRequests)
    /\ IF ~isManuallyDisconnected /\ shouldReconnect
       THEN TryReconnect(<< "disconnect" >>)
       ELSE /\ notes' = << "disconnect" >>
            /\ UNCHANGED << reconnectTimers, waits >>

\* The current transport closes (peer close, network failure, failed
\* handshake, or completion of a close the client asked for).
SocketClose ==
    /\ readyState \in {CONNECTING, OPEN, CLOSING}
    /\ readyState' = CLOSED
    /\ OnClose
    /\ lastOp' = Op("onclose", gen, 0, NoData)
    /\ wire' = << >>
    /\ UNCHANGED << limits, options, inVars, reconnectArgs, gen, closingOld, liveOld, policyVars, timedOut, nextId, evVars,
                    histVars >>

\* A transport that reconnectResume() replaced while it was CLOSING delivers
\* its close event.
OldSocketClose(g) ==
    /\ g \in closingOld
    /\ closingOld' = closingOld \ {g}
    /\ OnClose
    /\ lastOp' = Op("onclose", g, 0, NoData)
    /\ wire' = << >>
    /\ UNCHANGED << limits, options, inVars, reconnectArgs, readyState, gen, liveOld, policyVars, timedOut, nextId, evVars,
                    histVars >>

\* socket.onopen. The caller's "reconnect" handler runs first, with the
\* transport already OPEN, and may call emit() `k` times.
SocketOpen(k) ==
    /\ readyState = CONNECTING
    /\ k > 0 => currentAttempt > 0 /\ nextEv + k - 1 <= limits.events
    /\ readyState' = OPEN
    /\ notes' = IF currentAttempt > 0 THEN << "reconnect" >> ELSE << >>
    /\ reconnectArgs' = IF currentAttempt > 0 THEN << >> ELSE reconnectArgs
    /\ currentAttempt' = 0
    /\ shouldReconnect' = TRUE
    /\ isManuallyDisconnected' = FALSE
    /\ reconnectionDelay' = ResetDelay
    /\ nextEv' = nextEv + k
    /\ sentEvents' = sentEvents \o Fresh(nextEv, k) \o FlushSends(eventQueue, readyState')
    /\ wire' = EventFrames(Fresh(nextEv, k) \o FlushSends(eventQueue, readyState'))
    /\ eventQueue' = << >>
    /\ emittedAfterDisconnect' = IF sinceDisconnect
                                 THEN emittedAfterDisconnect \cup Range(Fresh(nextEv, k))
                                 ELSE emittedAfterDisconnect
    /\ waits' = << >>
    /\ lastOp' = Op("onopen", gen, currentAttempt, NoData)
    /\ delivered' = NoDelivery
    /\ UNCHANGED << limits, options, inVars, gen, closingOld, liveOld, reconnectionAttempts,
                    reconnectTimers, reqVars, sinceDisconnect >>

\* initializeSocket: a new transport instance replaces this.socket.
InitializeSocket ==
    /\ gen' = gen + 1
    /\ readyState' = CONNECTING
    /\ closingOld' = IF readyState = CLOSING THEN closingOld \cup {gen} ELSE closingOld
    /\ liveOld' = IF readyState \in {CONNECTING, OPEN} THEN liveOld \cup {gen} ELSE liveOld

\* Mutant: reconnectResume creates a transport whatever the current one's state.
ReconnectResumeAlways == InitializeSocket

\* reconnectResume
ReconnectResume ==
    IF readyState \in {OPEN, CONNECTING}
    THEN UNCHANGED connVars
    ELSE InitializeSocket

CanResume == readyState \in {OPEN, CONNECTING} \/ gen < limits.sockets

\* The setTimeout callback of tryReconnect.
ReconnectTimerFire ==
    /\ reconnectTimers > 0
    /\ CanResume
    /\ reconnectTimers' = reconnectTimers - 1
    /\ currentAttempt' = currentAttempt + 1
    /\ ReconnectResume
    /\ reconnectionDelay' = NextDelay(reconnectionDelay)
    /\ lastOp' = Op("timer", gen', 0, NoData)
    /\ delivered' = NoDelivery
    /\ wire' = << >>
    /\ notes' = << >>
    /\ UNCHANGED << limits, options, inVars, reconnectArgs, reconnectionAttempts, shouldReconnect,
                    isManuallyDisconnected, reqVars, evVars, waits, histVars >>

\* The caller calls reconnectResume().
CallReconnectResume ==
    /\ CanResume
    /\ ReconnectResume
    /\ sinceDisconnect' = FALSE
    /\ lastOp' = Op("resume", gen', 0, NoData)
    /\ delivered' = NoDelivery
    /\ wire' = << >>
    /\ notes' = << >>
    /\ UNCHANGED << limits, options, inVars, reconnectArgs, policyVars, reconnectTimers, reqVars, evVars, waits,
                    emittedAfterDisconnect >>

\* disconnect()
Disconnect ==
    /\ IF readyState # OPEN /\ readyState # CONNECTING
       THEN UNCHANGED << isManuallyDisconnected, shouldReconnect, eventQueue,
                         readyState >>
       ELSE /\ isManuallyDisconnected' = TRUE
            /\ shouldReconnect' = FALSE
            /\ eventQueue' = << >>
            /\ readyState' = CLOSING
    /\ sinceDisconnect' = (limits.observe = "events")
    /\ lastOp' = Op("disconnect", gen, 0, NoData)
    /\ delivered' = NoDelivery
    /\ wire' = << >>
    /\ notes' = << >>
    /\ UNCHANGED << limits, options, inVars, reconnectArgs, gen, closingOld, liveOld, reconnectionAttempts, reconnectionDelay,
                    currentAttempt, reconnectTimers, reqVars, nextEv, sentEvents,
                    waits, emittedAfterDisconnect >>

\* close(): socket.close() with no flag set.
Close ==
    /\ readyState' = IF readyState \in {OPEN, CONNECTING} THEN CLOSING ELSE readyState
    /\ lastOp' = Op("close", gen, 0, NoData)
    /\ delivered' = NoDelivery
    /\ wire' = << >>
    /\ notes' = << >>
    /\ UNCHANGED << limits, options, inVars, reconnectArgs, gen, closingOld, liveOld, policyVars, reconnectTimers, reqVars,
                    evVars, waits, histVars >>

\* ------------------------------------------------- server-initiated requests
\* What the steps of this section leave alone.
outsideInbound == << limits, options, reconnectArgs, connVars, policyVars, reconnectTimers,
                     reqVars, evVars, waits, histVars >>

\* enableServerRequests: refused, with a warning, unless the address is
\* wss: or its host name is localhost.
EnableServerRequests ==
    /\ allowServerRequests' = IF url.protocol = "wss:" \/ url.hostname = "localhost"
                              THEN TRUE
                              ELSE allowServerRequests
    /\ lastOp' = Op("enable", 0, 0, NoData)
    /\ wire' = << >>
    /\ notes' = << >>
    /\ delivered' = NoDelivery
    /\ UNCHANGED << url, requestHandlers, outsideInbound >>

\* disableServerRequests
DisableServerRequests ==
    /\ allowServerRequests' = FALSE
    /\ lastOp' = Op("disable", 0, 0, NoData)
    /\ wire' = << >>
    /\ notes' = << >>
    /\ delivered' = NoDelivery
    /\ UNCHANGED << url, requestHandlers, outsideInbound >>

\* Mutant: registration replaces a handler already registered.
OnRequestOverwrites(ep, h) ==
    /\ requestHandlers' = [requestHandlers EXCEPT ![ep] = h]
    /\ lastOp' = Op("onRequest", 0, 0, ep)
    /\ wire' = << >>
    /\ notes' = << >>
    /\ delivered' = NoDelivery
    /\ UNCHANGED << url, allowServerRequests, outsideInbound >>

\* onRequest(endpoint, handler)
OnRequest(ep, h) ==
    /\ IF requestHandlers[ep] # NoHandler
       THEN /\ lastOp' = Op("onRequest", 0, Thrown, ep)
            /\ UNCHANGED requestHandlers
       ELSE /\ requestHandlers' = [requestHandlers EXCEPT ![ep] = h]
            /\ lastOp' = Op("onRequest", 0, 0, ep)
    /\ wire' = << >>
    /\ notes' = << >>
    /\ delivered' = NoDelivery
    /\ UNCHANGED << url, allowServerRequests, outsideInbound >>

\* handleIncomingRequest and sendResponse, for a handler that behaves as `b`:
\* the handler called (notes) and the response frames handed to socket.send.
HandleIncomingRequest(rid, ep, b) ==
    IF requestHandlers[ep] = NoHandler
    THEN /\ wire' = << ResponseFrame(rid, 404) >>
         /\ notes' = << >>
    ELSE /\ notes' = << requestHandlers[ep] >>
         /\ wire' = [i \in 1..RespondCalls(b) |-> ResponseFrame(rid, 0)]
                    \o (IF Throws(b) /\ ~CatchThrows(b)
                        THEN << ResponseFrame(rid, 500) >>
                        ELSE << >>)

\* Mutant: request frames are dispatched whatever the authorization flag is.
OnMessageRequestUngated(rid, ep, b) ==
    /\ readyState \in {OPEN, CLOSING}
    /\ HandleIncomingRequest(rid, ep, b)
    /\ lastOp' = Op("inrequest", rid,
                    IF requestHandlers[ep] # NoHandler THEN ThrowCode(b) ELSE 0, ep)
    /\ delivered' = NoDelivery
    /\ UNCHANGED << inVars, outsideInbound >>

\* socket.onmessage for a frame {"request": {id, endpoint, data}}
OnMessageRequest(rid, ep, b) ==
    /\ readyState \in {OPEN, CLOSING}
    /\ IF ~allowServerRequests
       THEN /\ wire' = << >>
            /\ notes' = << >>
       ELSE HandleIncomingRequest(rid, ep, b)
    /\ lastOp' = Op("inrequest", rid,
                    IF allowServerRequests /\ requestHandlers[ep] # NoHandler
                    THEN ThrowCode(b)
                    ELSE 0, ep)
    /\ delivered' = NoDelivery
    /\ UNCHANGED << inVars, outsideInbound >>

\* socket.onmessage for a frame {"event": name, "data": ...}: the handshake
\* acknowledgment calls the connect handler, any other name calls whatever
\* handler events holds under that name.
OnMessageEvent(name) ==
    /\ readyState \in {OPEN, CLOSING}
    /\ notes' = IF name = HandshakeAck THEN << "connect" >>
                 ELSE IF name \in HandledNames THEN << name >>
                 ELSE << >>
    /\ lastOp' = Op("event", gen, 0, name)
    /\ wire' = << >>
    /\ delivered' = NoDelivery
    /\ UNCHANGED << inVars, outsideInbound >>

\* Mutant: a message that cannot be parsed makes the client close the transport.
OnMessageUnparsableCloses ==
    /\ readyState \in {OPEN, CLOSING}
    /\ readyState' = CLOSING
    /\ lastOp' = Op("unparsable", gen, 0, NoData)
    /\ wire' = << >>
    /\ notes' = << >>
    /\ delivered' = NoDelivery
    /\ UNCHANGED << limits, options, inVars, reconnectArgs, gen, closingOld, liveOld, policyVars,
                    reconnectTimers, reqVars, evVars, waits, histVars >>

\* socket.onmessage for a message JSON.parse rejects: the catch clause logs it.
OnMessageUnparsable ==
    /\ readyState \in {OPEN, CLOSING}
    /\ lastOp' = Op("unparsable", gen, 0, NoData)
    /\ wire' = << >>
    /\ notes' = << >>
    /\ delivered' = NoDelivery
    /\ UNCHANGED << inVars, outsideInbound >>

\* --------------------------------------------------------------------- Next
InboundEvents == \E name \in EventNames : OnMessageEvent(name)

Lifecycle ==
    \/ \E k \in 0..MaxHandlerEmits : SocketOpen(k)
    \/ SocketClose
    \/ \E g \in 1..ConnSockets : OldSocketClose(g)
    \/ ReconnectTimerFire
    \/ CallReconnectResume
    \/ Disconnect
    \/ Close

Requests ==
    \/ \E sendOk \in BOOLEAN : Request(sendOk)
    \/ \E id \in Ids : Timeout(id)
    \/ \E id \in Ids, data \in DataVals, error \in ErrorVals :
          OnMessageResponse(id, data, error)
    \/ OnMessageUnparsable

DefaultOptions ==
    [reconnectionAttempts |-> DefaultAttempts, reconnectionDelay |-> DefaultDelay,
     shouldReconnect |-> TRUE]

\* The connection lifecycle alone, over every option set.
InitConn ==
    InitWith([sockets |-> ConnSockets, requests |-> 0, events |-> 0,
              observe |-> "backoff"], OptionSets, {DefaultUrl})
NextConn == Lifecycle \/ InboundEvents
SpecConn == InitConn /\ [][NextConn]_vars

\* Requests and responses over the lifecycle.
InitReq ==
    InitWith([sockets |-> ReqSockets, requests |-> MaxRequests, events |-> 0,
              observe |-> "requests"], {DefaultOptions}, {DefaultUrl})
NextReq == Lifecycle \/ Requests
SpecReq == InitReq /\ [][NextReq]_vars

\* Events and the event queue over the lifecycle.
InitEv ==
    InitWith([sockets |-> EvSockets, requests |-> 0, events |-> MaxEvents,
              observe |-> "events"], {DefaultOptions}, {DefaultUrl})
NextEv == Lifecycle \/ Emit
SpecEv == InitEv /\ [][NextEv]_vars

Inbound ==
    \/ EnableServerRequests
    \/ DisableServerRequests
    \/ \E ep \in Endpoints, h \in Handlers : OnRequest(ep, h)
    \/ \E rid \in InIds, ep \in Endpoints, b \in Behaviours : OnMessageRequest(rid, ep, b)
    \/ OnMessageUnparsable

\* Server-initiated requests over the lifecycle, over every kind of address.
InitIn ==
    InitWith([sockets |-> InSockets, requests |-> 0, events |-> 0,
              observe |-> "inbound"], {DefaultOptions}, Urls)
NextIn == Lifecycle \/ Inbound
SpecIn == InitIn /\ [][NextIn]_vars

\* ================================================================== claims
\* Everything but the record of what the last step did.
clientState == << options, inVars, connVars, policyVars, reconnectTimers, reqVars, evVars >>

C2_Correlation ==
    [][/\ \A id \in Ids :
            /\ delivered'[id].kind = "resolved" =>
                  /\ lastOp'.name = "response" /\ lastOp'.id = id
                  /\ lastOp'.code = NoError
                  /\ delivered'[id].data = lastOp'.data
            /\ delivered'[id].msg = "response" =>
                  /\ lastOp'.name = "response" /\ lastOp'.id = id
                  /\ lastOp'.code # NoError
                  /\ delivered'[id].code = ErrCode(lastOp'.code)
       /\ (lastOp'.name = "response" /\ lastOp'.id \notin pendingRequests) =>
             /\ UNCHANGED clientState
             /\ delivered' = NoDelivery
      ]_vars

\* A response resolves its own request while another request stays pending.
C2_Witness ==
    /\ lastOp.name = "response"
    /\ delivered[lastOp.id] = Resolved(lastOp.data)
    /\ pendingRequests \ settled # {}

\* C3: on every transport close every request pending at that moment is
\* rejected with code 503, every deadline timer of the table is cancelled and
\* the table is empty afterwards.
C3_CloseRejectsAll ==
    [][lastOp'.name = "onclose" =>
        /\ \A id \in pendingRequests :
              /\ id \notin settled => delivered'[id] = Rejected(503, "closed")
              /\ id \notin reqTimers'
        /\ pendingRequests' = {}
      ]_vars

\* A close that rejected two pending requests at once.
C3_Witness ==
    /\ lastOp.name = "onclose"
    /\ Cardinality({id \in Ids : delivered[id] = Rejected(503, "closed")}) >= 2
    /\ pendingRequests = {}

\* C4: a deadline expiry rejects the still unsettled request with code 408 and
\* removes it from the table; a response with that identifier arriving
\* afterwards changes nothing.
C4_Timeout ==
    [][/\ lastOp'.name = "timeout" =>
             /\ lastOp'.id \notin settled =>
                   delivered'[lastOp'.id] = Rejected(408, "timeout")
             /\ lastOp'.id \notin pendingRequests'
             /\ lastOp'.id \notin reqTimers'
       /\ (lastOp'.name = "response" /\ lastOp'.id \in timedOut) =>
             /\ UNCHANGED clientState
             /\ delivered' = NoDelivery
      ]_vars

\* A response frame arrives for a request that already timed out, while the
\* transport is open and another request is pending.
C4_Witness ==
    /\ lastOp.name = "response"
    /\ lastOp.id \in timedOut
    /\ readyState = OPEN
    /\ pendingRequests # {}

NoDuplicates(q) == \A i, j \in 1..Len(q) : q[i] = q[j] => i = j

\* C5: an event emitted while the transport is not open and the client is not
\* manually disconnected is queued; the queue is kept by every step other than
\* a manual disconnect, and the next successful open hands the whole queue to
\* the transport in emission order, each event once.
C5_QueuedThenFlushed ==
    [][/\ (lastOp'.name = "emit" /\ readyState # OPEN /\ ~isManuallyDisconnected) =>
             /\ eventQueue' = Append(eventQueue, lastOp'.id)
             /\ sentEvents' = sentEvents
       /\ lastOp'.name = "onopen" =>
             /\ Len(wire') >= Len(eventQueue)
             /\ SubSeq(wire', Len(wire') - Len(eventQueue) + 1, Len(wire')) =
                   EventFrames(eventQueue)
             /\ sentEvents' = sentEvents \o [i \in 1..Len(wire') |-> wire'[i].id]
             /\ eventQueue' = << >>
       /\ lastOp'.name \notin {"emit", "onopen", "disconnect"} =>
             UNCHANGED << eventQueue, sentEvents >>
       /\ NoDuplicates(sentEvents' \o eventQueue')
      ]_vars

\* Two events queued before the first of two failed automatic attempts are
\* flushed, in order, when the third transport opens.
C5_Witness ==
    /\ lastOp.name = "onopen"
    /\ lastOp.code >= 2
    /\ wire = EventFrames(<< 1, 2 >>)

\* C6 as stated: an event emitted after a call of disconnect() and before the
\* next call of reconnectResume() never reaches the transport.
C6_DroppedAfterDisconnect ==
    \A e \in emittedAfterDisconnect : e \notin Range(sentEvents)

\* C7 as stated: whenever the manual-disconnect flag is set, no reconnection
\* timer is pending.
C7_NoTimerWhileManual ==
    isManuallyDisconnected => reconnectTimers = 0

\* The last step was a close that set a reconnection timer.
ScheduledByLastStep ==
    /\ lastOp.name = "onclose"
    /\ notes = << "disconnect" >>
    /\ ~isManuallyDisconnected /\ shouldReconnect
    /\ waits # << >>

\* C8 as stated: with k attempts made since the last successful open, the
\* delay waited before the next attempt is min(2^k * B, M), B the configured
\* base delay and M the documented maximum of 10000 ms.
C8_BackoffDelays ==
    ScheduledByLastStep =>
        waits[Len(waits)] = Min(options.reconnectionDelay * 2^currentAttempt, DocMaxDelay)

\* C9 as stated: a successful open leaves the attempt count at 0 and the
\* backoff delay at the configured base delay.
C9_ResetToBase ==
    lastOp.name = "onopen" =>
        /\ currentAttempt = 0
        /\ reconnectionDelay = options.reconnectionDelay

\* C10: a close on the automatic path with the attempt count at or above the
\* configured maximum fires reconnect_failed and sets no timer; a timer is set
\* only below the maximum; and once the maximum is reached the count stays
\* there until a transport opens, so no later close sets a timer either.
C10_GivesUp ==
    [][/\ (/\ lastOp'.name = "onclose"
           /\ ~isManuallyDisconnected /\ shouldReconnect
           /\ currentAttempt >= reconnectionAttempts) =>
             /\ notes' = << "disconnect", "reconnect_failed" >>
             /\ reconnectTimers' = reconnectTimers
       /\ reconnectTimers' > reconnectTimers =>
             /\ currentAttempt < reconnectionAttempts
             /\ "reconnect_failed" \notin Range(notes')
       /\ (currentAttempt >= reconnectionAttempts /\ lastOp'.name # "onopen") =>
             currentAttempt' >= reconnectionAttempts
      ]_vars

\* The example: maxAttempts 3, base 100, no open since construction; the
\* fourth transport closes after waits of 100, 200 and 400 and the client
\* gives up.
C10_Witness ==
    /\ options.reconnectionAttempts = 3 /\ options.reconnectionDelay = 100
    /\ lastOp = Op("onclose", 4, 0, NoData)
    /\ notes = << "disconnect", "reconnect_failed" >>
    /\ waits = << 100, 200, 400 >>
    /\ reconnectTimers = 0

\* C11 as stated: a client constructed with reconnection disabled never has a
\* reconnection timer pending, whatever closes and opens have happened.
C11_NeverScheduled ==
    ~options.shouldReconnect => reconnectTimers = 0

\* C12: request() called while the client is manually disconnected fails with
\* 400, and called while the transport is not open fails with 503; either way
\* nothing is handed to the transport, no deadline timer is armed, no entry is
\* added to the table and no identifier is consumed.
C12_FailsImmediately ==
    [][lastOp'.name = "request" =>
        /\ isManuallyDisconnected => lastOp'.code = 400
        /\ (~isManuallyDisconnected /\ readyState # OPEN) => lastOp'.code = 503
        /\ (isManuallyDisconnected \/ readyState # OPEN) =>
              /\ wire' = << >>
              /\ UNCHANGED clientState
      ]_vars

\* A request refused with 400 on a closing transport, and the request that was
\* pending before it is still pending with its timer armed.
C12_Witness ==
    /\ lastOp = Op("request", 0, 400, NoData)
    /\ readyState = CLOSING
    /\ pendingRequests # {}
    /\ reqTimers = pendingRequests

\* Identifiers request() has issued so far.
Issued == { id \in Ids : id < nextId }

\* C18 as stated: in every reachable state the table holds exactly the
\* identifiers issued and not yet settled, and a deadline timer is armed for
\* exactly those.
C18_TableExact ==
    /\ pendingRequests = Issued \ settled
    /\ reqTimers = pendingRequests

\* C19 as stated: a response frame that carries the identifier of a pending,
\* unsettled request and no error resolves that request, cancels its timer
\* and removes its entry, whatever payload the frame carries.
C19_AnyPayloadSettles ==
    [][(/\ lastOp'.name = "response"
        /\ lastOp'.code = NoError
        /\ lastOp'.id \in pendingRequests \ settled) =>
          /\ delivered'[lastOp'.id].kind = "resolved"
          /\ lastOp'.id \notin pendingRequests'
          /\ lastOp'.id \notin reqTimers'
      ]_vars

\* C16 as stated: in an open transition every queued event is handed to the
\* transport before every event emitted during that transition.
C16_QueuedBeforeNew ==
    [][lastOp'.name = "onopen" =>
        \A i, j \in 1..Len(wire') :
            (/\ wire'[i].id \in Range(eventQueue)
             /\ wire'[j].id \notin Range(eventQueue)) => i < j
      ]_vars

\* C17 as stated: an open fires the reconnect notification exactly when the
\* attempt count before the reset was above 0, and the handler is called with
\* that count as its argument.
C17_ReconnectCarriesCount ==
    lastOp.name = "onopen" =>
        /\ ("reconnect" \in Range(notes)) <=> (lastOp.code > 0)
        /\ lastOp.code > 0 => reconnectArgs = << lastOp.code >>

\* C13: authorization is off after construction; a request frame that arrives
\* while it is off is dropped (no handler called, nothing handed to the
\* transport, no state changed); a request frame that arrives while it is on,
\* whatever switching went before, is processed: its registered handler is
\* called, or a 404 response is sent when there is none.
C13_DroppedUnlessAuthorized ==
    /\ [](lastOp.name = "constructor" => ~allowServerRequests)
    /\ [][lastOp'.name = "inrequest" =>
            IF ~allowServerRequests
            THEN /\ wire' = << >>
                 /\ notes' = << >>
                 /\ UNCHANGED clientState
            ELSE IF requestHandlers[lastOp'.data] = NoHandler
                 THEN wire' = << ResponseFrame(lastOp'.id, 404) >>
                 ELSE notes' = << requestHandlers[lastOp'.data] >>
         ]_vars

\* A request frame for a registered endpoint is dropped on a secure address
\* while authorization is off.
C13_Witness ==
    /\ lastOp.name = "inrequest"
    /\ ~allowServerRequests
    /\ url.protocol = "wss:"
    /\ requestHandlers[lastOp.data] # NoHandler
    /\ wire = << >> /\ notes = << >>

\* C14: onRequest for an endpoint that has a handler throws and changes
\* nothing; onRequest for a free endpoint changes only that endpoint; no step
\* ever changes a registration once made; and an authorized request frame for
\* a registered endpoint calls the handler registered for it, which is
\* therefore the first one.
C14_DuplicateRejected ==
    [][/\ lastOp'.name = "onRequest" =>
             IF requestHandlers[lastOp'.data] # NoHandler
             THEN /\ lastOp'.code = Thrown
                  /\ UNCHANGED clientState
             ELSE /\ lastOp'.code = 0
                  /\ \A ep \in Endpoints \ {lastOp'.data} :
                        requestHandlers'[ep] = requestHandlers[ep]
       /\ \A ep \in Endpoints :
             requestHandlers[ep] # NoHandler => requestHandlers'[ep] = requestHandlers[ep]
       /\ (/\ lastOp'.name = "inrequest"
           /\ allowServerRequests
           /\ requestHandlers[lastOp'.data] # NoHandler) =>
             notes' = << requestHandlers[lastOp'.data] >>
      ]_vars

\* A second onRequest("e1", ...) has just thrown; e1 keeps its handler and
\* the other endpoint keeps a different one.
C14_Witness ==
    /\ lastOp = Op("onRequest", 0, Thrown, "e1")
    /\ requestHandlers["e1"] = "h1"
    /\ requestHandlers["e2"] = "h2"

\* C15 as stated: an authorized request frame for an endpoint without a
\* handler gets one 404 response with its identifier and no handler runs; one
\* whose handler throws gets a 500 response with its identifier.
C15_ErrorResponses ==
    [][(lastOp'.name = "inrequest" /\ allowServerRequests) =>
          /\ requestHandlers[lastOp'.data] = NoHandler =>
                /\ wire' = << ResponseFrame(lastOp'.id, 404) >>
                /\ notes' = << >>
          /\ (requestHandlers[lastOp'.data] # NoHandler /\ lastOp'.code # 0) =>
                ResponseFrame(lastOp'.id, 500) \in Range(wire')
      ]_vars

\* C20: a message that cannot be parsed hands nothing to the transport, calls
\* no handler, settles no request and changes nothing of the client's state,
\* so every later frame is handled as if the message had not arrived.
C20_UnparsableDiscarded ==
    [][lastOp'.name = "unparsable" =>
          /\ wire' = << >>
          /\ notes' = << >>
          /\ delivered' = NoDelivery
          /\ UNCHANGED clientState
      ]_vars

\* An unparsable message has just arrived on an open transport while a request
\* is pending; the request is still pending with its timer armed.
C20_Witness ==
    /\ lastOp.name = "unparsable"
    /\ readyState = OPEN
    /\ pendingRequests \ settled # {}
    /\ reqTimers = pendingRequests

\* Transport instances created so far that are CONNECTING or OPEN.
LiveTransports ==
    liveOld \cup (IF readyState \in {CONNECTING, OPEN} THEN {gen} ELSE {})

\* C21: at most one transport instance is CONNECTING or OPEN, and no step
\* creates a transport while the current one is CONNECTING or OPEN.
C21_OneLiveTransport ==
    /\ [](Cardinality(LiveTransports) <= 1)
    /\ [][gen' # gen => readyState \notin {CONNECTING, OPEN}]_vars

\* A reconnection timer has just fired while the transport set up by an
\* earlier resume() was open; no transport was created.
C21_Witness ==
    /\ lastOp.name = "timer"
    /\ readyState = OPEN
    /\ lastOp.id = gen
    /\ gen >= 2
    /\ LiveTransports = {gen}

\* C23 as stated: at most one reconnection timer is pending, none is pending
\* while the transport is CONNECTING or OPEN, and whenever the transport is
\* OPEN the attempt count is 0 and the delay is the value an open resets it to.
C23_OneTimerNoneWhileLive ==
    /\ reconnectTimers <= 1
    /\ readyState \in {CONNECTING, OPEN} => reconnectTimers = 0
    /\ readyState = OPEN => currentAttempt = 0 /\ reconnectionDelay = ResetDelay

\* C25 as stated: a close event rejects with 503 only requests that were sent
\* on the transport instance that closed, and the close event of a superseded
\* instance leaves the table alone and sets no reconnection timer.
C25_CloseTiedToGeneration ==
    [][lastOp'.name = "onclose" =>
        /\ \A id \in Ids :
              delivered'[id] = Rejected(503, "closed") => reqGen[id] = lastOp'.id
        /\ lastOp'.id # gen =>
              /\ pendingRequests' = pendingRequests
              /\ reconnectTimers' = reconnectTimers
      ]_vars

\* Response frames with identifier `rid` among the frames `w`.
ResponsesTo(rid, w) ==
    Cardinality({ i \in 1..Len(w) : w[i].type = "response" /\ w[i].id = rid })

\* C24 as stated: handling an authorized request frame hands at most one
\* response frame with that frame's identifier to the transport.
C24_AtMostOneResponse ==
    [][(lastOp'.name = "inrequest" /\ allowServerRequests) =>
          ResponsesTo(lastOp'.id, wire') <= 1
      ]_vars

\* C22 as stated: the disconnect handler is called only by a transport close,
\* the reconnect handler only by an open that follows at least one attempt,
\* the reconnect_failed handler only by a close at the attempt limit, and the
\* connect handler only by the handshake acknowledgment.
C22_LifecycleOnly ==
    [][/\ "disconnect" \in Range(notes') => lastOp'.name = "onclose"
       /\ "reconnect" \in Range(notes') =>
             lastOp'.name = "onopen" /\ currentAttempt > 0
       /\ "reconnect_failed" \in Range(notes') =>
             lastOp'.name = "onclose" /\ currentAttempt >= reconnectionAttempts
       /\ "connect" \in Range(notes') =>
             lastOp'.name = "event" /\ lastOp'.data = HandshakeAck
      ]_vars

====
